---- MODULE Spec2Model ----
(***************************************************************************)
(* A model of data-pipeline/generate_city.py: the tag-driven estimators    *)
(* (get_height, estimate_road_width, classify_building), the geometry      *)
(* flattening (parse_geometry) and the batch run of section 3 of the       *)
(* script (visual layers, road buffering, node aggregation, edge list,     *)
(* export).                                                                *)
(*                                                                         *)
(* Representation.                                                         *)
(*  - A Python string is a sequence of one-character strings.              *)
(*  - A tag value is a record [kind, s]: kind "absent" (key not in the     *)
(*    row), "nan" (pandas NaN) or "str" (the string s).                    *)
(*  - A float is an exact decimal [num, den], den a power of ten.  Where   *)
(*    the script calls round(), a value exactly half way between two       *)
(*    candidates may come out either way (the binary float nearest to a    *)
(*    decimal tie lies on either side of it), so rounding yields a set.    *)
(*  - Positions in the batch run are in centimetres (PerMetre units per    *)
(*    metre), so that 100.01 m is a point of the grid, and are the         *)
(*    recentred ones: the script subtracts the same (center_x, center_y)   *)
(*    from every centroid and every node.  On this grid round(., 2) keeps  *)
(*    a position as it is.                                                 *)
(*  - The rings of a polygon are not modelled: a shape is the index of the *)
(*    polygon within its geometry.                                         *)
(***************************************************************************)
EXTENDS Integers, Sequences, FiniteSets, TLC

VARIABLES pc, row, ret,
          gdf_visual, G_nodes, G_edges, idx,
          output_visual, building_data_points, road_polys, output_routing, files

vars == <<pc, row, ret, gdf_visual, G_nodes, G_edges, idx,
          output_visual, building_data_points, road_polys, output_routing, files>>

(***************************************************************************)
(* Bounds of the model.                                                    *)
(***************************************************************************)
MaxTagLen == 3
MaxFeatures == 2
MaxParts == 2
MaxNodes == 2
MaxEdges == 2

pipelineVars == <<gdf_visual, G_nodes, G_edges, idx, output_visual,
                  building_data_points, road_polys, output_routing, files>>

NoOutputVisual == [buildings |-> <<>>, water |-> <<>>, parks |-> <<>>, roads |-> <<>>]
NoOutputRouting == [nodes |-> <<>>, edges |-> <<>>]

NoRet == [none |-> TRUE]

(***************************************************************************)
(* Strings.                                                                *)
(***************************************************************************)
Digits == {"0", "1", "2", "3", "4", "5", "6", "7", "8", "9"}

DigitVal(c) ==
    CASE c = "0" -> 0 [] c = "1" -> 1 [] c = "2" -> 2 [] c = "3" -> 3
      [] c = "4" -> 4 [] c = "5" -> 5 [] c = "6" -> 6 [] c = "7" -> 7
      [] c = "8" -> 8 [] c = "9" -> 9

isdigit(c) == c \in Digits

UpperCase == <<"A", "B", "C", "D", "E", "F", "G", "H", "I", "J", "K", "L", "M",
               "N", "O", "P", "Q", "R", "S", "T", "U", "V", "W", "X", "Y", "Z">>
LowerCase == <<"a", "b", "c", "d", "e", "f", "g", "h", "i", "j", "k", "l", "m",
               "n", "o", "p", "q", "r", "s", "t", "u", "v", "w", "x", "y", "z">>

LowerChar(c) ==
    IF \E k \in 1..Len(UpperCase) : UpperCase[k] = c
    THEN LowerCase[CHOOSE k \in 1..Len(UpperCase) : UpperCase[k] = c]
    ELSE c

\* str.lower()
lower(s) == [k \in 1..Len(s) |-> LowerChar(s[k])]

\* the Python test  t in s  on strings
Contains(s, t) ==
    \E k \in 1..(Len(s) - Len(t) + 1) : SubSeq(s, k, k + Len(t) - 1) = t

\* all strings over alphabet A of length at most n
Strs(A, n) == UNION {[1..k -> A] : k \in 0..n}

Absent == [kind |-> "absent", s |-> <<>>]
NaN == [kind |-> "nan", s |-> <<>>]
Str(s) == [kind |-> "str", s |-> s]

\* key in row
Has(tag) == tag.kind # "absent"

\* str(row[key]): NaN prints as "nan"
str(tag) == IF tag.kind = "nan" THEN <<"n", "a", "n">> ELSE tag.s

(***************************************************************************)
(* Decimal numbers.                                                        *)
(***************************************************************************)
RECURSIVE Pow10(_)
Pow10(n) == IF n = 0 THEN 1 ELSE 10 * Pow10(n - 1)

RECURSIVE DigitsToNat(_)
DigitsToNat(s) ==
    IF s = <<>> THEN 0
    ELSE 10 * DigitsToNat(SubSeq(s, 1, Len(s) - 1)) + DigitVal(s[Len(s)])

Dec(n, d) == [num |-> n, den |-> d]

\* the same number without common factors of ten
RECURSIVE Norm(_)
Norm(v) ==
    IF v.den > 1 /\ v.num % 10 = 0 THEN Norm(Dec(v.num \div 10, v.den \div 10))
    ELSE v

\* the integers nearest to n/d (n >= 0, d > 0): both neighbours at a tie
RoundChoices(n, d) ==
    LET q == n \div d
        r == n % d
    IN  IF 2 * r < d THEN {q}
        ELSE IF 2 * r > d THEN {q + 1}
        ELSE {q, q + 1}

\* float(s) for a string s of digits and dots: Python accepts it exactly when it
\* has at least one digit and at most one dot ("5." and ".5" included)
FloatOk(s) ==
    /\ \E k \in 1..Len(s) : isdigit(s[k])
    /\ Cardinality({k \in 1..Len(s) : s[k] = "."}) <= 1

FloatOf(s) ==
    LET dots == {k \in 1..Len(s) : s[k] = "."}
        p == IF dots = {} THEN Len(s) + 1 ELSE CHOOSE k \in dots : TRUE
        whole == SubSeq(s, 1, p - 1)
        frac == SubSeq(s, p + 1, Len(s))
    IN  Dec(DigitsToNat(whole) * Pow10(Len(frac)) + DigitsToNat(frac), Pow10(Len(frac)))

\* float(s) for a match of the width pattern: an optional sign, then digits and
\* at most one dot
SignedFloatOf(s) ==
    IF s[1] = "-" THEN Dec(0 - FloatOf(Tail(s)).num, FloatOf(Tail(s)).den)
    ELSE IF s[1] = "+" THEN FloatOf(Tail(s))
    ELSE FloatOf(s)

\* a >= n where the script has a > n
AtLeast(a, n) == a.num >= n * a.den

\* a * b and the comparison a > n, on decimals
Times(a, b) == Dec(a.num * b.num, a.den * b.den)
Greater(a, n) == a.num > n * a.den

(***************************************************************************)
(* 1. Configuration                                                        *)
(***************************************************************************)
LANE_WIDTH_DEFAULT == Dec(35, 10)

RoadClasses == {"motorway", "trunk", "primary", "secondary", "tertiary",
                "residential", "service", "unclassified", "cycleway",
                "footway", "path"}

DEFAULT_WIDTHS(class) ==
    CASE class = "motorway" -> Dec(12, 1)
      [] class = "trunk" -> Dec(11, 1)
      [] class = "primary" -> Dec(10, 1)
      [] class = "secondary" -> Dec(9, 1)
      [] class = "tertiary" -> Dec(8, 1)
      [] class = "residential" -> Dec(6, 1)
      [] class = "service" -> Dec(4, 1)
      [] class = "unclassified" -> Dec(5, 1)
      [] class = "cycleway" -> Dec(2, 1)
      [] class = "footway" -> Dec(15, 10)
      [] class = "path" -> Dec(15, 10)

POP_DENSITY_FACTOR == Dec(5, 100)
JOB_DENSITY_FACTOR == Dec(8, 100)

(***************************************************************************)
(* 2. Helpers: get_height                                                  *)
(***************************************************************************)
\* "".join(filter(lambda x: x.isdigit() or x == ".", s))
FilterDigitsDot(s) == SelectSeq(s, LAMBDA c : isdigit(c) \/ c = ".")

IsNanStr(s) == s = <<"n", "a", "n">>

\* the float h of get_height before the final rounding
HeightBeforeRound(r) ==
    IF Has(r.height) /\ ~IsNanStr(lower(str(r.height)))
    THEN LET clean == FilterDigitsDot(str(r.height))
         IN  IF FloatOk(clean) THEN FloatOf(clean) ELSE Dec(8, 1)
    ELSE IF Has(r.levels) /\ ~IsNanStr(lower(str(r.levels)))
    THEN LET clean == FilterDigitsDot(str(r.levels))
         IN  IF FloatOk(clean) THEN Times(FloatOf(clean), Dec(35, 10)) ELSE Dec(8, 1)
    ELSE Dec(8, 1)

\* get_height(row): the values round(h, 1) can take, in tenths of a metre
get_height(r) ==
    LET h == HeightBeforeRound(r) IN RoundChoices(h.num * 10, h.den)

(***************************************************************************)
(* 2. Helpers: estimate_road_width                                         *)
(***************************************************************************)
\* the length of the run of digits of s that starts at position p
RECURSIVE DigitRun(_, _)
DigitRun(s, p) ==
    IF p <= Len(s) /\ isdigit(s[p]) THEN 1 + DigitRun(s, p + 1) ELSE 0

\* re.match of  [-+]?\d*\.\d+  at position p: the position after the match, 0 if
\* none.  \d* is greedy and giving digits back never helps (what follows a
\* shorter run is a digit, not the dot); without the optional sign the pattern
\* would have to start on the sign character, which is neither digit nor dot.
MatchFraction(s, p) ==
    LET q == IF s[p] \in {"-", "+"} THEN p + 1 ELSE p
        dot == q + DigitRun(s, q)
    IN  IF dot <= Len(s) /\ s[dot] = "." /\ DigitRun(s, dot + 1) >= 1
        THEN dot + 1 + DigitRun(s, dot + 1)
        ELSE 0

\* re.match of  \d+  at position p
MatchDigits(s, p) == IF DigitRun(s, p) >= 1 THEN p + DigitRun(s, p) ELSE 0

\* re.findall(r"[-+]?\d*\.\d+|\d+", s), scanning from position p
RECURSIVE FindNumbers(_, _)
FindNumbers(s, p) ==
    IF p > Len(s) THEN <<>>
    ELSE LET e == IF MatchFraction(s, p) # 0 THEN MatchFraction(s, p)
                  ELSE MatchDigits(s, p)
         IN  IF e # 0 THEN <<SubSeq(s, p, e - 1)>> \o FindNumbers(s, e)
             ELSE FindNumbers(s, p + 1)

\* re.findall(r"\d+", s), scanning from position p
RECURSIVE FindInts(_, _)
FindInts(s, p) ==
    IF p > Len(s) THEN <<>>
    ELSE IF MatchDigits(s, p) # 0
    THEN <<SubSeq(s, p, MatchDigits(s, p) - 1)>> \o FindInts(s, MatchDigits(s, p))
    ELSE FindInts(s, p + 1)

FeetMarker(val_str) ==
    \/ Contains(val_str, <<"'">>)
    \/ Contains(val_str, <<"f", "t">>)
    \/ Contains(val_str, <<"f", "e", "e", "t">>)

FEET == Dec(3048, 10000)

\* the body of the loop over the width keys for one key: [found, val]
WidthFromKey(tag) ==
    IF Has(tag) /\ ~IsNanStr(str(tag))
    THEN LET val_str == lower(str(tag))
             nums == FindNumbers(val_str, 1)
         IN  IF nums # <<>>
             THEN LET val == SignedFloatOf(nums[1])
                  IN  [found |-> TRUE,
                       val |-> IF FeetMarker(val_str) THEN Times(val, FEET)
                               ELSE IF Greater(val, 50) THEN Times(val, FEET)
                               ELSE val]
             ELSE [found |-> FALSE, val |-> Dec(0, 1)]
    ELSE [found |-> FALSE, val |-> Dec(0, 1)]

Max(a, b) == IF a >= b THEN a ELSE b
Min(a, b) == IF a <= b THEN a ELSE b

\* the lanes block: [found, val]
WidthFromLanes(tag) ==
    IF Has(tag) /\ ~IsNanStr(str(tag))
    THEN LET clean == FindInts(str(tag), 1)
         IN  IF clean # <<>>
             THEN [found |-> TRUE,
                   val |-> Times(Dec(Max(1, Min(DigitsToNat(clean[1]), 6)), 1),
                                 LANE_WIDTH_DEFAULT)]
             ELSE [found |-> FALSE, val |-> Dec(0, 1)]
    ELSE [found |-> FALSE, val |-> Dec(0, 1)]

\* A highway value: [kind, items], kind "absent", "nan", "str" (items holds the
\* one class) or "list" (items is the list, possibly empty).
HwAbsent == [kind |-> "absent", items |-> <<>>]
HwNaN == [kind |-> "nan", items |-> <<>>]
HwStr(c) == [kind |-> "str", items |-> <<c>>]
HwList(l) == [kind |-> "list", items |-> l]

\* the last three lines of estimate_road_width: [raised, val]; highway[0] of an
\* empty list raises IndexError, outside every try block
WidthFromHighway(hw) ==
    LET highway == IF hw.kind = "absent" THEN HwStr("residential") ELSE hw
    IN  IF highway.kind = "list" /\ highway.items = <<>>
        THEN [raised |-> TRUE, val |-> Dec(0, 1)]
        ELSE IF highway.kind # "nan" /\ highway.items[1] \in RoadClasses
        THEN [raised |-> FALSE, val |-> DEFAULT_WIDTHS(highway.items[1])]
        ELSE [raised |-> FALSE, val |-> Dec(4, 1)]

WidthKeys == <<"width", "width_carriageway", "est_width">>

\* estimate_road_width(row): [raised, val]
estimate_road_width(r) ==
    LET hits == {k \in 1..Len(WidthKeys) : WidthFromKey(r[WidthKeys[k]]).found}
    IN  IF hits # {}
        THEN LET first == CHOOSE k \in hits : \A j \in hits : k <= j
             IN  [raised |-> FALSE, val |-> WidthFromKey(r[WidthKeys[first]]).val]
        ELSE IF WidthFromLanes(r.lanes).found
        THEN [raised |-> FALSE, val |-> WidthFromLanes(r.lanes).val]
        ELSE WidthFromHighway(r.highway)

(***************************************************************************)
(* 2. Helpers: classify_building                                           *)
(***************************************************************************)
residential_tags ==
    { <<"a", "p", "a", "r", "t", "m", "e", "n", "t", "s">>,
      <<"r", "e", "s", "i", "d", "e", "n", "t", "i", "a", "l">>,
      <<"h", "o", "u", "s", "e">>,
      <<"d", "e", "t", "a", "c", "h", "e", "d">>,
      <<"t", "e", "r", "r", "a", "c", "e">>,
      <<"d", "o", "r", "m", "i", "t", "o", "r", "y">>,
      <<"h", "o", "t", "e", "l">> }

commercial_tags ==
    { <<"c", "o", "m", "m", "e", "r", "c", "i", "a", "l">>,
      <<"o", "f", "f", "i", "c", "e">>,
      <<"r", "e", "t", "a", "i", "l">>,
      <<"i", "n", "d", "u", "s", "t", "r", "i", "a", "l">>,
      <<"u", "n", "i", "v", "e", "r", "s", "i", "t", "y">>,
      <<"s", "c", "h", "o", "o", "l">>,
      <<"h", "o", "s", "p", "i", "t", "a", "l">>,
      <<"p", "u", "b", "l", "i", "c">> }

\* str(row.get(key, default)).lower()
GetLower(tag, default) == IF Has(tag) THEN lower(str(tag)) ELSE default

Supporting(s) == ~IsNanStr(s) /\ s # <<>>

\* is_res with the generic default taken below 5000 only
IsResBelowThreshold(r, volume10) ==
    LET b_type == GetLower(r.building, <<"y", "e", "s">>)
        is_res == \E t \in residential_tags : Contains(b_type, t)
        is_com == \/ \E t \in commercial_tags : Contains(b_type, t)
                  \/ Supporting(GetLower(r.amenity, <<>>))
                  \/ Supporting(GetLower(r.office, <<>>))
                  \/ Supporting(GetLower(r.shop, <<>>))
    IN  is_res \/ (~is_com /\ volume10 < 5000 * 10)

\* is_res and is_com after the "generic yes" default; volume10 is the volume in
\* tenths of a cubic metre (area in m2 times height in tenths of a metre)
IsRes(r, volume10) ==
    LET b_type == GetLower(r.building, <<"y", "e", "s">>)
        is_res == \E t \in residential_tags : Contains(b_type, t)
        is_com == \/ \E t \in commercial_tags : Contains(b_type, t)
                  \/ Supporting(GetLower(r.amenity, <<>>))
                  \/ Supporting(GetLower(r.office, <<>>))
                  \/ Supporting(GetLower(r.shop, <<>>))
    IN  is_res \/ (~is_com /\ ~(volume10 > 5000 * 10))

IsCom(r, volume10) ==
    LET b_type == GetLower(r.building, <<"y", "e", "s">>)
        is_res == \E t \in residential_tags : Contains(b_type, t)
        is_com == \/ \E t \in commercial_tags : Contains(b_type, t)
                  \/ Supporting(GetLower(r.amenity, <<>>))
                  \/ Supporting(GetLower(r.office, <<>>))
                  \/ Supporting(GetLower(r.shop, <<>>))
    IN  is_com \/ (~is_res /\ volume10 > 5000 * 10)

\* count / per without the cap
DensityUncapped(count, per) == Norm(Dec(count * (1000 \div per), 1000))

\* min(1.0, count / per)
DensityScore(count, per) ==
    IF count >= per THEN Dec(1, 1) ELSE Norm(Dec(count * (1000 \div per), 1000))

\* classify_building(row, height, area): the results (category, density_score,
\* pop, jobs) it can return; height10 in tenths of a metre, area in m2
classify_building(r, height10, area) ==
    LET volume10 == area * height10
    IN  IF IsRes(r, volume10)
        THEN {[category |-> "residential", density |-> DensityScore(pop, 500),
               pop |-> pop, jobs |-> 0] :
                 pop \in RoundChoices(volume10 * POP_DENSITY_FACTOR.num,
                                      10 * POP_DENSITY_FACTOR.den)}
        ELSE IF IsCom(r, volume10)
        THEN {[category |-> "commercial", density |-> DensityScore(jobs, 1000),
               pop |-> 0, jobs |-> jobs] :
                 jobs \in RoundChoices(volume10 * JOB_DENSITY_FACTOR.num,
                                       10 * JOB_DENSITY_FACTOR.den)}
        ELSE {[category |-> "none", density |-> Dec(0, 1), pop |-> 0, jobs |-> 0]}

(***************************************************************************)
(* 2. Helpers: parse_geometry                                              *)
(*                                                                         *)
(* A geometry is [kind, is_empty, nparts, area, cx, cy]: kind "Polygon",   *)
(* "MultiPolygon" (nparts polygons), "LineString", or "None" for a row     *)
(* without a geometry object; area in m2, centroid (cx, cy).               *)
(***************************************************************************)
parse_geometry(geom) ==
    IF geom.is_empty THEN <<>>
    ELSE IF geom.kind = "Polygon" THEN <<[part |-> 1]>>
    ELSE IF geom.kind = "MultiPolygon" THEN [k \in 1..geom.nparts |-> [part |-> k]]
    ELSE <<>>

\* geom.is_empty on a row without geometry raises AttributeError
GeometryMissing(geom) == geom.kind = "None"

(***************************************************************************)
(* 3. Execution                                                            *)
(***************************************************************************)
RADIUS == 100
PerMetre == 10 * 10

\* "key" in row and str(row[key]) != "nan"
Tagged(tag) == Has(tag) /\ ~IsNanStr(str(tag))

\* the water branch tested ahead of the building branch
LayerOfWaterFirst(tags) ==
    IF Tagged(tags.natural) \/ Tagged(tags.water) THEN "water"
    ELSE IF Tagged(tags.building) THEN "buildings"
    ELSE "parks"

\* the branch of the visual-layer loop a row takes
LayerOf(tags) ==
    IF Tagged(tags.building) THEN "buildings"
    ELSE IF Tagged(tags.natural) \/ Tagged(tags.water) THEN "water"
    ELSE "parks"

\* s with x appended n times
RECURSIVE Repeat(_, _, _)
Repeat(s, x, n) == IF n = 0 THEN s ELSE Repeat(Append(s, x), x, n - 1)

\* the building records one row appends: one per polygon, all with the
\* attributes computed from the whole row
BuildingRecords(polygons, height, c) ==
    [k \in 1..Len(polygons) |->
        [shape |-> polygons[k], height |-> height,
         data |-> [type |-> c.category, density |-> c.density,
                   pop |-> c.pop, jobs |-> c.jobs]]]

\* one entry per row, whatever the number of polygons
DataPointOnce(polygons, geom, c) ==
    <<[x |-> geom.cx, y |-> geom.cy, pop |-> c.pop, jobs |-> c.jobs]>>

\* the entries one row appends to building_data_points: one per polygon
DataPoints(polygons, geom, c) ==
    Repeat(<<>>, [x |-> geom.cx, y |-> geom.cy, pop |-> c.pop, jobs |-> c.jobs],
           Len(polygons))

AreaRecords(polygons) == [k \in 1..Len(polygons) |-> [shape |-> polygons[k]]]

\* one iteration of  for idx, row in gdf_visual.iterrows()
VisualRow ==
    /\ pc = "visual"
    /\ idx < Len(gdf_visual)
    /\ ~GeometryMissing(gdf_visual[idx + 1].geometry)
    /\ LET f == gdf_visual[idx + 1]
           polygons == parse_geometry(f.geometry)
           layer == LayerOf(f.tags)
       IN  IF layer = "buildings" /\ polygons # <<>>
           THEN \E height \in get_height(f.tags) :
                \E c \in classify_building(f.tags, height, f.geometry.area) :
                   /\ building_data_points' =
                          building_data_points \o DataPoints(polygons, f.geometry, c)
                   /\ output_visual' =
                          [output_visual EXCEPT !.buildings =
                              @ \o BuildingRecords(polygons, height, c)]
           ELSE /\ output_visual' =
                       [output_visual EXCEPT ![layer] = @ \o AreaRecords(polygons)]
                /\ UNCHANGED building_data_points
    /\ idx' = idx + 1
    /\ UNCHANGED <<pc, row, ret, gdf_visual, G_nodes, G_edges, road_polys,
                   output_routing, files>>

\* parse_geometry raises on a row without geometry; nothing catches it
VisualRowRaises ==
    /\ pc = "visual"
    /\ idx < Len(gdf_visual)
    /\ GeometryMissing(gdf_visual[idx + 1].geometry)
    /\ pc' = "aborted"
    /\ UNCHANGED <<row, ret, gdf_visual, G_nodes, G_edges, idx, output_visual,
                   building_data_points, road_polys, output_routing, files>>

VisualDone ==
    /\ pc = "visual"
    /\ idx = Len(gdf_visual)
    /\ pc' = "roads"
    /\ idx' = 0
    /\ UNCHANGED <<row, ret, gdf_visual, G_nodes, G_edges, output_visual,
                   building_data_points, road_polys, output_routing, files>>

\* gdf_edges: the attribute rows, one per graph edge that has one
gdf_edges == SelectSeq(G_edges, LAMBDA e : e.has_row)

\* one iteration of  for idx, row in gdf_edges.iterrows()
BufferRoad ==
    /\ pc = "roads"
    /\ idx < Len(gdf_edges)
    /\ ~estimate_road_width(gdf_edges[idx + 1].tags).raised
    /\ road_polys' = Append(road_polys,
                            [u |-> gdf_edges[idx + 1].u, v |-> gdf_edges[idx + 1].v,
                             key |-> gdf_edges[idx + 1].key,
                             width |-> estimate_road_width(gdf_edges[idx + 1].tags).val])
    /\ idx' = idx + 1
    /\ UNCHANGED <<pc, row, ret, gdf_visual, G_nodes, G_edges, output_visual,
                   building_data_points, output_routing, files>>

\* estimate_road_width raises on an empty highway list; nothing catches it
BufferRoadRaises ==
    /\ pc = "roads"
    /\ idx < Len(gdf_edges)
    /\ estimate_road_width(gdf_edges[idx + 1].tags).raised
    /\ pc' = "aborted"
    /\ UNCHANGED <<row, ret, gdf_visual, G_nodes, G_edges, idx, output_visual,
                   building_data_points, road_polys, output_routing, files>>

\* unary_union of the buffers and parse_geometry of the result.  The union is
\* kept as one entry that stands for the list of its connected parts.
RoadsDone ==
    /\ pc = "roads"
    /\ idx = Len(gdf_edges)
    /\ output_visual' =
           [output_visual EXCEPT !.roads =
               IF road_polys # <<>> THEN <<[shape |-> [union |-> road_polys]]>> ELSE <<>>]
    /\ pc' = "nodes"
    /\ idx' = 0
    /\ UNCHANGED <<row, ret, gdf_visual, G_nodes, G_edges, building_data_points,
                   road_polys, output_routing, files>>

\* the points at distance < r
query_ball_point_open(points, nx, ny, r) ==
    {k \in 1..Len(points) :
        (points[k].x - nx) * (points[k].x - nx) + (points[k].y - ny) * (points[k].y - ny)
            < r * r}

\* tree.query_ball_point([nx, ny], r): the indices of the points at distance <= r
query_ball_point(points, nx, ny, r) ==
    {k \in 1..Len(points) :
        (points[k].x - nx) * (points[k].x - nx) + (points[k].y - ny) * (points[k].y - ny)
            <= r * r}

\* np.sum(b_data[indices], axis=0): the sums of pop and of jobs
RECURSIVE np_sum(_, _)
np_sum(b_data, indices) ==
    IF indices = {} THEN [pop |-> 0, jobs |-> 0]
    ELSE LET k == CHOOSE j \in indices : TRUE
             rest == np_sum(b_data, indices \ {k})
         IN  [pop |-> b_data[k].pop + rest.pop, jobs |-> b_data[k].jobs + rest.jobs]

NodeStats(nx, ny) ==
    IF building_data_points # <<>>
    THEN LET indices == query_ball_point(building_data_points, nx, ny, RADIUS * PerMetre)
         IN  IF indices # {} THEN np_sum(building_data_points, indices)
             ELSE [pop |-> 0, jobs |-> 0]
    ELSE [pop |-> 0, jobs |-> 0]

\* d = {key: value}
DictReplace(d, key, value) == [k \in {key} |-> value]

\* d[key] = value on a dict
DictSet(d, key, value) ==
    [k \in DOMAIN d \cup {key} |-> IF k = key THEN value ELSE d[k]]

\* one iteration of  for node_id, row in gdf_nodes.iterrows()
NodeRow ==
    /\ pc = "nodes"
    /\ idx < Len(G_nodes)
    /\ LET n == G_nodes[idx + 1]
           stats == NodeStats(n.x, n.y)
       IN  output_routing' =
               [output_routing EXCEPT !.nodes =
                   DictSet(@, n.id, [x |-> n.x, y |-> n.y,
                                     pop |-> stats.pop, jobs |-> stats.jobs])]
    /\ idx' = idx + 1
    /\ UNCHANGED <<pc, row, ret, gdf_visual, G_nodes, G_edges, output_visual,
                   building_data_points, road_polys, files>>

NodesDone ==
    /\ pc = "nodes"
    /\ idx = Len(G_nodes)
    /\ pc' = "edges"
    /\ idx' = 0
    /\ UNCHANGED <<row, ret, gdf_visual, G_nodes, G_edges, output_visual,
                   building_data_points, road_polys, output_routing, files>>

\* one iteration of  for u, v, k in G.edges(keys=True)  whose row is found
EdgeRow ==
    /\ pc = "edges"
    /\ idx < Len(G_edges)
    /\ G_edges[idx + 1].has_row
    /\ output_routing' =
           [output_routing EXCEPT !.edges =
               Append(@, [u |-> G_edges[idx + 1].u, v |-> G_edges[idx + 1].v,
                          oneway |-> G_edges[idx + 1].oneway])]
    /\ idx' = idx + 1
    /\ UNCHANGED <<pc, row, ret, gdf_visual, G_nodes, G_edges, output_visual,
                   building_data_points, road_polys, files>>

\* gdf_edges.loc[(u, v, k)] raises KeyError: continue
EdgeRowMissing ==
    /\ pc = "edges"
    /\ idx < Len(G_edges)
    /\ ~G_edges[idx + 1].has_row
    /\ idx' = idx + 1
    /\ UNCHANGED <<pc, row, ret, gdf_visual, G_nodes, G_edges, output_visual,
                   building_data_points, road_polys, output_routing, files>>

\* the two json.dump calls
Export ==
    /\ pc = "edges"
    /\ idx = Len(G_edges)
    /\ files' = {"city_data.json", "routing_graph.json"}
    /\ pc' = "done"
    /\ UNCHANGED <<row, ret, gdf_visual, G_nodes, G_edges, idx, output_visual,
                   building_data_points, road_polys, output_routing>>

Next ==
    \/ VisualRow
    \/ VisualRowRaises
    \/ VisualDone
    \/ BufferRoad
    \/ BufferRoadRaises
    \/ RoadsDone
    \/ NodeRow
    \/ NodesDone
    \/ EdgeRow
    \/ EdgeRowMissing
    \/ Export

(***************************************************************************)
(* Inputs of the batch run: the feature table and the road graph.          *)
(***************************************************************************)
Polygon(area, cx, cy) ==
    [kind |-> "Polygon", is_empty |-> FALSE, nparts |-> 1, area |-> area,
     cx |-> cx, cy |-> cy]
MultiPolygon(n, area, cx, cy) ==
    [kind |-> "MultiPolygon", is_empty |-> FALSE, nparts |-> n, area |-> area,
     cx |-> cx, cy |-> cy]
EmptyPolygon ==
    [kind |-> "Polygon", is_empty |-> TRUE, nparts |-> 0, area |-> 0, cx |-> 0, cy |-> 0]
LineString ==
    [kind |-> "LineString", is_empty |-> FALSE, nparts |-> 0, area |-> 0,
     cx |-> 0, cy |-> 0]
NoGeometry ==
    [kind |-> "None", is_empty |-> FALSE, nparts |-> 0, area |-> 0, cx |-> 0, cy |-> 0]

NoTags ==
    [building |-> NaN, natural |-> NaN, water |-> NaN, amenity |-> NaN,
     office |-> NaN, shop |-> NaN, height |-> NaN, levels |-> NaN]

\* apartments of three levels
ApartmentTags ==
    [NoTags EXCEPT !.building = Str(<<"a", "p", "a", "r", "t", "m", "e", "n", "t", "s">>),
                   !.levels = Str(<<"3">>)]
\* a generic building, 12 m high
GenericTags ==
    [NoTags EXCEPT !.building = Str(<<"y", "e", "s">>),
                   !.height = Str(<<"1", "2", " ", "m">>)]
\* a boathouse mapped on the water
BoathouseTags ==
    [NoTags EXCEPT !.building = Str(<<"y", "e", "s">>),
                   !.natural = Str(<<"w", "a", "t", "e", "r">>)]
WaterTags == [NoTags EXCEPT !.natural = Str(<<"w", "a", "t", "e", "r">>)]
PondTags == [NoTags EXCEPT !.water = Str(<<"p", "o", "n", "d">>)]
\* leisure=park: none of the keys the loop reads is set
ParkTags == NoTags
CafeTags == [NoTags EXCEPT !.amenity = Str(<<"c", "a", "f", "e">>)]

Feature(geom, tags) == [geometry |-> geom, tags |-> tags]

\* centroids at exactly 100 m and at 100.01 m of the origin, along an axis and
\* on the 3-4-5 diagonal
Centroids == {<<100 * PerMetre, 0>>, <<100 * PerMetre + 1, 0>>,
              <<60 * PerMetre, 80 * PerMetre>>}

BuildingGeometries(area) ==
    {Polygon(area, c[1], c[2]) : c \in Centroids}
      \cup {MultiPolygon(n, area, 100 * PerMetre, 0) : n \in 2..MaxParts}

Features ==
    {Feature(g, ApartmentTags) : g \in BuildingGeometries(40)}
      \cup {Feature(g, GenericTags) : g \in BuildingGeometries(700)}
      \cup {Feature(Polygon(900, 0, 0), tags) : tags \in {WaterTags, ParkTags, CafeTags}}
      \cup {Feature(MultiPolygon(MaxParts, 900, 0, 0), WaterTags),
            Feature(Polygon(900, 0, 0), PondTags),
            Feature(Polygon(60, 0, 0), BoathouseTags),
            Feature(EmptyPolygon, GenericTags),
            Feature(LineString, CafeTags),
            Feature(NoGeometry, ParkTags)}

Seqs(S, n) == UNION {[1..k -> S] : k \in 0..n}

Node(id, x, y) == [id |-> id, x |-> x, y |-> y]

RoadTags ==
    [width |-> NaN, width_carriageway |-> NaN, est_width |-> NaN, lanes |-> NaN,
     highway |-> HwStr("residential")]

Edge(u, v, key, has_row, tags) ==
    [u |-> u, v |-> v, key |-> key, has_row |-> has_row, tags |-> tags,
     oneway |-> u < v]

\* a merged way: a list of classes and a width in feet
MergedWayTags ==
    [RoadTags EXCEPT !.highway = HwList(<<"primary", "secondary">>),
                     !.width = Str(<<"2", "0", " ", "f", "t">>)]

\* a row whose highway list is empty
NoClassTags == [RoadTags EXCEPT !.highway = HwList(<<>>)]

\* three small road graphs for the runs that vary the features: two nodes
\* 200.01 m apart with an edge that has no row, two nodes 1 m apart, and one
\* with an empty highway list
SceneGraphs ==
    { [nodes |-> <<Node(1, 0, 0), Node(2, 200 * PerMetre + 1, 0)>>,
       edges |-> <<Edge(1, 2, 0, TRUE, RoadTags), Edge(2, 1, 0, FALSE, RoadTags)>>],
      [nodes |-> <<Node(1, 0, 0), Node(2, 0, PerMetre)>>,
       edges |-> <<Edge(1, 2, 0, TRUE, MergedWayTags)>>],
      [nodes |-> <<Node(1, 0, 0)>>,
       edges |-> <<Edge(1, 1, 0, TRUE, NoClassTags)>>] }

Start ==
    /\ pc = "visual"
    /\ row = NoRet
    /\ ret = NoRet
    /\ idx = 0
    /\ output_visual = NoOutputVisual
    /\ building_data_points = <<>>
    /\ road_polys = <<>>
    /\ output_routing = NoOutputRouting
    /\ files = {}

\* runs over every feature table of at most MaxFeatures rows
Init ==
    /\ gdf_visual \in Seqs(Features, MaxFeatures)
    /\ \E g \in SceneGraphs : G_nodes = g.nodes /\ G_edges = g.edges
    /\ Start

Spec == Init /\ [][Next]_vars

\* the road graphs: nodes 1..MaxNodes in any subset, on a line 60 m apart, and
\* at most MaxEdges edges (u, v, key) between them, in the graph's order
NodeIds == 1..MaxNodes

NodeLists ==
    {l \in Seqs(NodeIds, MaxNodes) : \A a, b \in 1..Len(l) : a < b => l[a] < l[b]}

EdgeKeys(nodes) ==
    {<<u, v, key>> : u \in nodes, v \in nodes, key \in {0, 1}}

Before(a, b) ==
    \/ a.u < b.u
    \/ a.u = b.u /\ a.v < b.v
    \/ a.u = b.u /\ a.v = b.v /\ a.key < b.key

\* an edge with its row, with a row whose highway list is empty, or without row
EdgesOver(nodes) ==
    {Edge(e[1], e[2], e[3], TRUE, tags) :
        e \in EdgeKeys(nodes), tags \in {RoadTags, NoClassTags}}
      \cup {Edge(e[1], e[2], e[3], FALSE, RoadTags) : e \in EdgeKeys(nodes)}

\* the lists of at most n edges over the nodes, in increasing (u, v, key)
RECURSIVE EdgeListsUpTo(_, _)
EdgeListsUpTo(nodes, n) ==
    IF n = 0 THEN {<<>>}
    ELSE LET shorter == EdgeListsUpTo(nodes, n - 1)
             longest == {l \in shorter : Len(l) = n - 1}
         IN  shorter \cup
               {Append(x[1], x[2]) :
                  x \in {y \in longest \X EdgesOver(nodes) :
                           y[1] = <<>> \/ Before(y[1][Len(y[1])], y[2])}}

EdgeLists(nodes) == EdgeListsUpTo(nodes, MaxEdges)

GraphFeatureTables ==
    { <<Feature(Polygon(40, 100 * PerMetre, 0), ApartmentTags)>>,
      <<Feature(NoGeometry, ParkTags)>> }

InitGraph ==
    /\ gdf_visual \in GraphFeatureTables
    /\ \E l \in NodeLists :
          /\ G_nodes = [k \in 1..Len(l) |-> Node(l[k], 60 * PerMetre * l[k], 0)]
          /\ G_edges \in EdgeLists({l[k] : k \in 1..Len(l)})
    /\ Start

SpecGraph == InitGraph /\ [][Next]_vars

(***************************************************************************)
(* Calls of the three estimators on rows drawn from bounded sets.  The     *)
(* variables of the batch run are idle in these specifications.            *)
(***************************************************************************)
PipelineIdle ==
    /\ gdf_visual = <<>>
    /\ G_nodes = <<>>
    /\ G_edges = <<>>
    /\ idx = 0
    /\ output_visual = NoOutputVisual
    /\ building_data_points = <<>>
    /\ road_polys = <<>>
    /\ output_routing = NoOutputRouting
    /\ files = {}

\* ---- get_height ----
HeightAlphabet == {"1", "5", ".", "-", " ", "m"}

HeightExamples ==
    { <<"1", "2", " ", "m">>,
      <<"a", "p", "p", "r", "o", "x", " ", "1", "2", ".", "5", " ", "f", "t">>,
      <<"1", "0", " ", "m", " ", "5">>,
      <<"8", ".", "2", "5">>,
      <<"N", "a", "N">>,
      <<"t", "a", "l", "l">> }

HeightTags ==
    {Absent, NaN} \cup {Str(s) : s \in Strs(HeightAlphabet, MaxTagLen) \cup HeightExamples}

LevelTags ==
    {Absent, NaN, Str(<<"3">>), Str(<<"2", ".", "5">>), Str(<<"x">>),
     Str(<<"3", " ", "f", "l", "o", "o", "r", "s">>)}

InitHeight ==
    /\ pc = "get_height"
    /\ row \in [height : HeightTags, levels : LevelTags]
    /\ ret = NoRet
    /\ PipelineIdle

CallGetHeight ==
    /\ pc = "get_height"
    /\ \E h \in get_height(row) : ret' = h
    /\ pc' = "height_returned"
    /\ UNCHANGED <<row, pipelineVars>>

NextHeight == CallGetHeight

SpecHeight == InitHeight /\ [][NextHeight]_vars

\* ---- estimate_road_width ----
WidthAlphabet == {"5", "0", ".", "-", "'"}

WidthExamples ==
    { <<"2", "0", " ", "f", "t">>,
      <<"2", "0", " ", "F", "T">>,
      <<"1", "2", " ", "f", "e", "e", "t">>,
      <<"6", "0">>,
      <<"6", "0", " ", "f", "t">>,
      <<"w", "i", "d", "e">> }

WidthTags ==
    {Absent, NaN} \cup {Str(s) : s \in Strs(WidthAlphabet, MaxTagLen) \cup WidthExamples}

CarriagewayTags == {Absent, Str(<<"7">>), Str(<<"n", "a", "r", "r", "o", "w">>)}

EstWidthTags == {Absent, Str(<<"9", " ", "f", "t">>)}

LaneTags ==
    {Absent, NaN, Str(<<"3">>), Str(<<"0">>), Str(<<"8">>), Str(<<"2", ";", "3">>),
     Str(<<"m", "a", "n", "y">>)}

HighwayTags ==
    {HwAbsent, HwNaN, HwStr("residential"), HwStr("footway"), HwStr("motorway"),
     HwStr("road"), HwList(<<"primary", "secondary">>), HwList(<<"busway", "service">>),
     HwList(<<>>)}

InitWidth ==
    /\ pc = "estimate_road_width"
    /\ row \in [width : WidthTags, width_carriageway : CarriagewayTags,
                est_width : EstWidthTags, lanes : LaneTags, highway : HighwayTags]
    /\ ret = NoRet
    /\ PipelineIdle

CallEstimateRoadWidth ==
    /\ pc = "estimate_road_width"
    /\ ret' = estimate_road_width(row)
    /\ pc' = "width_returned"
    /\ UNCHANGED <<row, pipelineVars>>

NextWidth == CallEstimateRoadWidth

SpecWidth == InitWidth /\ [][NextWidth]_vars

\* ---- classify_building ----
BuildingTypes ==
    { <<"y", "e", "s">>,
      <<"a", "p", "a", "r", "t", "m", "e", "n", "t", "s">>,
      <<"H", "o", "t", "e", "l">>,
      <<"w", "a", "r", "e", "h", "o", "u", "s", "e">>,
      <<"r", "e", "t", "a", "i", "l">>,
      <<"o", "f", "f", "i", "c", "e">>,
      <<"s", "c", "h", "o", "o", "l", "h", "o", "u", "s", "e">>,
      <<"a", "p", "a", "r", "t", "m", "e", "n", "t", "s", ";", "r", "e", "t", "a", "i", "l">>,
      <<"g", "a", "r", "a", "g", "e">> }

BuildingTags == {Absent, NaN} \cup {Str(s) : s \in BuildingTypes}

AmenityTags == {Absent, NaN, Str(<<>>), Str(<<"c", "a", "f", "e">>)}
OfficeTags == {Absent, Str(<<"y", "e", "s">>)}
ShopTags == {Absent, NaN, Str(<<"b", "a", "k", "e", "r", "y">>)}

\* heights in tenths of a metre, footprint areas in m2
Heights10 == {0, 10, 25, 80, 105}
Areas == {0, 10, 25, 80, 625, 626, 750, 1250, 1560, 6250}

InitClassify ==
    /\ pc = "classify_building"
    /\ row \in [building : BuildingTags, amenity : AmenityTags, office : OfficeTags,
                shop : ShopTags, height10 : Heights10, area : Areas]
    /\ ret = NoRet
    /\ PipelineIdle

CallClassifyBuilding ==
    /\ pc = "classify_building"
    /\ \E c \in classify_building(row, row.height10, row.area) : ret' = c
    /\ pc' = "classify_returned"
    /\ UNCHANGED <<row, pipelineVars>>

NextClassify == CallClassifyBuilding

SpecClassify == InitClassify /\ [][NextClassify]_vars

(***************************************************************************)
(* The number a tag string holds, as the design states it: the first       *)
(* numeric substring, optionally signed, optionally fractional.            *)
(***************************************************************************)
HasDigit(s) == \E k \in 1..Len(s) : isdigit(s[k])

\* a number starts at position q (without its sign)
RefUnsignedAt(s, q) ==
    /\ q <= Len(s)
    /\ \/ isdigit(s[q])
       \/ s[q] = "." /\ q + 1 <= Len(s) /\ isdigit(s[q + 1])

RefStartsAt(s, p) ==
    \/ RefUnsignedAt(s, p)
    \/ s[p] \in {"-", "+"} /\ RefUnsignedAt(s, p + 1)

RefHasNumber(s) == \E p \in 1..Len(s) : RefStartsAt(s, p)

RefFirstNumber(s) ==
    LET p == CHOOSE k \in 1..Len(s) :
                 RefStartsAt(s, k) /\ \A j \in 1..(k - 1) : ~RefStartsAt(s, j)
        q == IF s[p] \in {"-", "+"} THEN p + 1 ELSE p
        w == DigitRun(s, q)
        f == IF q + w <= Len(s) /\ s[q + w] = "." THEN DigitRun(s, q + w + 1) ELSE 0
        mag == DigitsToNat(SubSeq(s, q, q + w - 1)) * Pow10(f)
                 + DigitsToNat(SubSeq(s, q + w + 1, q + w + f))
    IN  Dec(IF s[p] = "-" THEN 0 - mag ELSE mag, Pow10(f))

\* a tag yields a number
Yields(tag) == tag.kind = "str" /\ RefHasNumber(tag.s)

\* the tag holds one unsigned number and no other digit, dot or sign
OneUnsignedNumber(s) ==
    LET ks == {k \in 1..Len(s) : isdigit(s[k]) \/ s[k] = "."}
    IN  /\ HasDigit(s)
        /\ \A k \in 1..Len(s) : s[k] \notin {"-", "+"}
        /\ \A a \in ks, b \in ks : \A c \in a..b : c \in ks
        /\ Cardinality({k \in ks : s[k] = "."}) <= 1

\* v rounded to one decimal, in tenths
RoundedTenths(v) ==
    IF v.num >= 0 THEN RoundChoices(v.num * 10, v.den)
    ELSE {0 - x : x \in RoundChoices((0 - v.num) * 10, v.den)}

(***************************************************************************)
(* C4 (as stated).  get_height: a height tag that yields a number gives    *)
(* that number; else a building:levels tag that yields a number gives it   *)
(* times 3.5, whether the height tag is absent or present but unparseable; *)
(* else 8.0.  Stated for tags that hold at most one unsigned number, where *)
(* which number a tag yields is not in question.                           *)
(***************************************************************************)
C4_HeightPolicy ==
    pc = "height_returned" =>
        LET plain(tag) == Yields(tag) => OneUnsignedNumber(tag.s)
        IN  plain(row.height) /\ plain(row.levels) =>
              IF Yields(row.height)
              THEN ret \in RoundedTenths(RefFirstNumber(row.height.s))
              ELSE IF Yields(row.levels)
              THEN ret \in RoundedTenths(Times(RefFirstNumber(row.levels.s), Dec(35, 10)))
              ELSE ret = 80

(***************************************************************************)
(* C5 (as stated).  The extraction get_height uses returns exactly the     *)
(* first number embedded in the tag string: digits of separate numbers are *)
(* not merged and a leading sign is kept.                                  *)
(***************************************************************************)
C5_FirstEmbeddedNumber ==
    pc = "height_returned" /\ Yields(row.height) =>
        ret \in RoundedTenths(RefFirstNumber(row.height.s))

(***************************************************************************)
(* C3.  estimate_road_width: (1) the first of width, width:carriageway,    *)
(* est_width whose value holds a number gives that number, times 0.3048    *)
(* when the string has a feet marker or the number exceeds 50 (50 itself   *)
(* is kept); (2) otherwise a lane count gives the count clamped to [1,6]   *)
(* times 3.5; (3) otherwise the table value of the highway class (first    *)
(* entry of a non-empty list), 4.0 for a class the table does not hold.    *)
(* The number of rule (1) is the first match of the script's pattern; it   *)
(* is the first embedded number whenever no sign stands before that one.   *)
(* width="20 ft" gives 6.096, "60" gives 18.288, lanes="3" gives 10.5 and  *)
(* highway="residential" alone gives 6.0.                                  *)
(***************************************************************************)
HoldsNumber(tag) == tag.kind = "str" /\ HasDigit(tag.s)

SameNumber(a, b) == a.num * b.den = b.num * a.den

C3_Rule1(r, v) ==
    LET first == CHOOSE k \in 1..3 :
                     HoldsNumber(r[WidthKeys[k]])
                     /\ \A j \in 1..(k - 1) : ~HoldsNumber(r[WidthKeys[j]])
        s == lower(r[WidthKeys[first]].s)
        n == SignedFloatOf(FindNumbers(s, 1)[1])
        feet == \E k \in 1..Len(s) :
                    \/ s[k] = "'"
                    \/ k < Len(s) /\ s[k] = "f" /\ s[k + 1] = "t"
                    \/ k + 3 <= Len(s) /\ SubSeq(s, k, k + 3) = <<"f", "e", "e", "t">>
        signed == \E k \in 1..Len(s) :
                      /\ s[k] \in {"-", "+"}
                      /\ RefStartsAt(s, k)
                      /\ \A j \in 1..(k - 1) : ~RefStartsAt(s, j)
    IN  /\ ~signed => SameNumber(n, RefFirstNumber(s))
        /\ IF feet \/ n.num > 50 * n.den
           THEN v = Dec(n.num * 3048, n.den * 10000)
           ELSE v = n

C3_Rule2(r, v) ==
    LET k == CHOOSE j \in 1..Len(r.lanes.s) :
                 isdigit(r.lanes.s[j]) /\ \A i \in 1..(j - 1) : ~isdigit(r.lanes.s[i])
        count == DigitsToNat(SubSeq(r.lanes.s, k, k + DigitRun(r.lanes.s, k) - 1))
        clamped == IF count < 1 THEN 1 ELSE IF count > 6 THEN 6 ELSE count
    IN  v = Dec(clamped * 35, 10)

C3_Rule3(r, v) ==
    LET class == IF r.highway.kind = "absent" THEN "residential"
                 ELSE IF r.highway.kind = "nan" THEN "nan"
                 ELSE r.highway.items[1]
    IN  IF class \in RoadClasses THEN v = DEFAULT_WIDTHS(class) ELSE v = Dec(4, 1)

C3_Examples(r, v) ==
    LET only(tag) == /\ r.width_carriageway = Absent
                     /\ r.est_width = Absent
                     /\ r.width = tag
    IN  /\ only(Str(<<"2", "0", " ", "f", "t">>)) => SameNumber(v, Dec(6096, 1000))
        /\ only(Str(<<"6", "0">>)) => SameNumber(v, Dec(18288, 1000))
        /\ only(Str(<<"5", "0">>)) => SameNumber(v, Dec(50, 1))
        /\ only(Absent) /\ r.lanes = Str(<<"3">>) => SameNumber(v, Dec(105, 10))
        /\ only(Absent) /\ r.lanes = Absent /\ r.highway = HwStr("residential")
             => SameNumber(v, Dec(6, 1))

C3_RoadWidthPolicy ==
    pc = "width_returned" =>
        /\ IF \E k \in 1..3 : HoldsNumber(row[WidthKeys[k]])
           THEN ~ret.raised /\ C3_Rule1(row, ret.val)
           ELSE IF HoldsNumber(row.lanes)
           THEN ~ret.raised /\ C3_Rule2(row, ret.val)
           ELSE row.highway # HwList(<<>>) => ~ret.raised /\ C3_Rule3(row, ret.val)
        /\ ~ret.raised => C3_Examples(row, ret.val)

\* width="60" without a unit came back as 60 x 0.3048 = 18.288
C3_Witness ==
    /\ pc = "width_returned"
    /\ row.width = Str(<<"6", "0">>)
    /\ ret.val = Dec(182880, 10000)

(***************************************************************************)
(* C2.  classify_building: the category, from the building-type keywords,  *)
(* the supporting tags and the volume threshold.                           *)
(***************************************************************************)
BuildingType(r) ==
    IF r.building.kind = "absent" THEN <<"y", "e", "s">> ELSE lower(str(r.building))

HasResKeyword(r) == \E t \in residential_tags : Contains(BuildingType(r), t)
HasComKeyword(r) == \E t \in commercial_tags : Contains(BuildingType(r), t)

HasSupportingTag(r) ==
    \E tag \in {r.amenity, r.office, r.shop} : tag.kind = "str" /\ tag.s # <<>>

C2_Fallbacks(r, category) ==
    LET volume10 == r.area * r.height10
    IN  /\ ~HasResKeyword(r) /\ ~HasComKeyword(r) /\ HasSupportingTag(r)
             => category = "commercial"
        /\ ~HasResKeyword(r) /\ ~HasComKeyword(r) /\ ~HasSupportingTag(r)
             => IF volume10 > 50000 THEN category = "commercial"
                ELSE category = "residential"

\* C2 (as stated): a residential keyword gives residential, a commercial keyword
\* gives commercial, then the supporting tags, then the volume threshold
C2_AsStated ==
    pc = "classify_returned" =>
        /\ HasResKeyword(row) => ret.category = "residential"
        /\ HasComKeyword(row) => ret.category = "commercial"
        /\ C2_Fallbacks(row, ret.category)

\* C2 (amended): a residential keyword gives residential; a commercial keyword
\* gives commercial when no residential keyword is in the tag as well; with
\* neither keyword a non-empty amenity/office/shop gives commercial; otherwise
\* volume > 5000 gives commercial and volume <= 5000 residential
C2_ClassifyPolicy ==
    pc = "classify_returned" =>
        /\ HasResKeyword(row) => ret.category = "residential"
        /\ HasComKeyword(row) /\ ~HasResKeyword(row) => ret.category = "commercial"
        /\ C2_Fallbacks(row, ret.category)

\* a generic building of exactly 5000 m3 without supporting tags came back
\* residential
C2_Witness ==
    /\ pc = "classify_returned"
    /\ row.building = Str(<<"y", "e", "s">>)
    /\ ~HasSupportingTag(row)
    /\ row.area * row.height10 = 50000
    /\ ret.category = "residential"

(***************************************************************************)
(* C6.  The density score lies in [0,1] and saturates: residential has     *)
(* pop = round(volume x 0.05) and density = min(1, pop/500), commercial    *)
(* has jobs = round(volume x 0.08) and density = min(1, jobs/1000);        *)
(* volume 200 residential gives pop 10 and density 0.02.                   *)
(***************************************************************************)
\* n is an integer nearest to a/d
Nearest(n, a, d) == 2 * n * d - 2 * a <= d /\ 2 * a - 2 * n * d <= d

\* score = min(1, count/per)
Saturating(score, count, per) ==
    IF count >= per THEN score.num = score.den
    ELSE score.num * per = count * score.den

C6_DensityScore ==
    pc = "classify_returned" =>
        LET volume10 == row.area * row.height10
        IN  /\ ret.density.den > 0
            /\ 0 <= ret.density.num /\ ret.density.num <= ret.density.den
            /\ ret.category \in {"residential", "commercial"}
            /\ ret.category = "residential" =>
                 /\ Nearest(ret.pop, volume10 * 5, 1000)
                 /\ ret.jobs = 0
                 /\ Saturating(ret.density, ret.pop, 500)
            /\ ret.category = "commercial" =>
                 /\ Nearest(ret.jobs, volume10 * 8, 1000)
                 /\ ret.pop = 0
                 /\ Saturating(ret.density, ret.jobs, 1000)
            /\ ret.category = "residential" /\ volume10 = 2000 =>
                 ret.pop = 10 /\ ret.density = Dec(2, 100)

\* a residential building of at least 500 people scored exactly 1.0
C6_Witness ==
    /\ pc = "classify_returned"
    /\ ret.category = "residential"
    /\ ret.pop >= 500
    /\ ret.density = Dec(1, 1)

(***************************************************************************)
(* The batch run: what the claims read.                                    *)
(***************************************************************************)
\* the number of rows of gdf_visual the visual-layer loop has been through
Processed == IF pc = "visual" THEN idx ELSE Len(gdf_visual)

\* the number of polygons a feature's geometry holds
PolygonCount(f) ==
    IF f.geometry.is_empty THEN 0
    ELSE IF f.geometry.kind = "Polygon" THEN 1
    ELSE IF f.geometry.kind = "MultiPolygon" THEN f.geometry.nparts
    ELSE 0

NonNan(tag) == tag.kind = "str" /\ tag.s # <<"n", "a", "n">>

ExpectedLayer(f) ==
    CASE NonNan(f.tags.building) -> "buildings"
      [] ~NonNan(f.tags.building) /\ (NonNan(f.tags.natural) \/ NonNan(f.tags.water))
           -> "water"
      [] OTHER -> "parks"

\* the part indices the first n features contribute to a layer, in order
RECURSIVE LayerParts(_, _)
LayerParts(layer, n) ==
    IF n = 0 THEN <<>>
    ELSE LayerParts(layer, n - 1)
           \o (IF ExpectedLayer(gdf_visual[n]) = layer
               THEN [k \in 1..PolygonCount(gdf_visual[n]) |-> k]
               ELSE <<>>)

\* within 100 m, boundary included (positions in centimetres)
Within100m(ax, ay, bx, by) ==
    (ax - bx) * (ax - bx) + (ay - by) * (ay - by) <= 10000 * 10000

(***************************************************************************)
(* C1.  Every node's pop and jobs are the sums of pop and of jobs over     *)
(* exactly the indexed building entries whose centroid is at most 100 m    *)
(* from the node (a building at exactly 100 m counts, one at 100.01 m does *)
(* not); 0 when nothing is indexed or in range; a building in range of     *)
(* several nodes counts in full for each.                                  *)
(***************************************************************************)
RECURSIVE PopWithin(_, _, _)
PopWithin(n, x, y) ==
    IF n = 0 THEN 0
    ELSE PopWithin(n - 1, x, y)
           + (IF Within100m(building_data_points[n].x, building_data_points[n].y, x, y)
              THEN building_data_points[n].pop ELSE 0)

RECURSIVE JobsWithin(_, _, _)
JobsWithin(n, x, y) ==
    IF n = 0 THEN 0
    ELSE JobsWithin(n - 1, x, y)
           + (IF Within100m(building_data_points[n].x, building_data_points[n].y, x, y)
              THEN building_data_points[n].jobs ELSE 0)

C1_NodeAggregation ==
    \A id \in DOMAIN output_routing.nodes :
        LET node == output_routing.nodes[id]
        IN  /\ node.pop = PopWithin(Len(building_data_points), node.x, node.y)
            /\ node.jobs = JobsWithin(Len(building_data_points), node.x, node.y)

\* two buildings are indexed, one exactly 100 m from a node and one 100.01 m
\* from it, and the node holds the population of the first alone
C1_Witness ==
    /\ Len(building_data_points) = 2
    /\ \E id \in DOMAIN output_routing.nodes :
          LET node == output_routing.nodes[id]
              dist2(b) == (b.x - node.x) * (b.x - node.x) + (b.y - node.y) * (b.y - node.y)
          IN  /\ dist2(building_data_points[1]) = 10000 * 10000
              /\ dist2(building_data_points[2]) = 10001 * 10001
              /\ building_data_points[2].pop > 0
              /\ node.pop = building_data_points[1].pop
              /\ node.pop > 0

(***************************************************************************)
(* C7 (as stated).  No input is fatal: a row that cannot be processed is   *)
(* skipped or defaulted, and the run goes on to emit both documents.       *)
(***************************************************************************)
C7_NoInputIsFatal == pc # "aborted"

(***************************************************************************)
(* C8.  Every u and v of an emitted edge is a key of the node map, also    *)
(* when edges without an attribute row are dropped: a dropped edge takes   *)
(* no node with it, and every other edge is emitted once.                  *)
(***************************************************************************)
\* the (u, v) of the first n graph edges that have a row, in order
RECURSIVE EdgesWithRow(_)
EdgesWithRow(n) ==
    IF n = 0 THEN <<>>
    ELSE EdgesWithRow(n - 1)
           \o (IF G_edges[n].has_row THEN <<<<G_edges[n].u, G_edges[n].v>>>> ELSE <<>>)

C8_EdgesReferToNodes ==
    /\ \A k \in 1..Len(output_routing.edges) :
          /\ output_routing.edges[k].u \in DOMAIN output_routing.nodes
          /\ output_routing.edges[k].v \in DOMAIN output_routing.nodes
    /\ pc \in {"edges", "done"} =>
          /\ DOMAIN output_routing.nodes = {G_nodes[k].id : k \in 1..Len(G_nodes)}
          /\ [k \in 1..Len(output_routing.edges) |->
                <<output_routing.edges[k].u, output_routing.edges[k].v>>]
               = EdgesWithRow(IF pc = "done" THEN Len(G_edges) ELSE idx)

\* a run that dropped an edge without a row and emitted another one between
\* two different nodes
C8_Witness ==
    /\ pc = "done"
    /\ \E k \in 1..Len(G_edges) : ~G_edges[k].has_row
    /\ \E k \in 1..Len(output_routing.edges) :
          output_routing.edges[k].u # output_routing.edges[k].v

(***************************************************************************)
(* C9.  A building feature whose geometry is a MultiPolygon of k parts     *)
(* gives k building records with the one height, category, density, pop    *)
(* and jobs computed from the whole feature, and k entries at the          *)
(* feature's centroid in the aggregation index, so a node within 100 m of  *)
(* the centroid receives k times the feature's pop and jobs.               *)
(***************************************************************************)
\* the number of building records the features before the j-th gave
BuildingsBefore(j) == Len(LayerParts("buildings", j - 1))

\* what the first n features bring to a node at (x, y): the polygon count
\* times the feature's own pop (jobs), for the building features in range
RECURSIVE FeaturePopWithin(_, _, _)
FeaturePopWithin(n, x, y) ==
    IF n = 0 THEN 0
    ELSE FeaturePopWithin(n - 1, x, y)
           + (IF /\ ExpectedLayer(gdf_visual[n]) = "buildings"
                 /\ PolygonCount(gdf_visual[n]) > 0
                 /\ Within100m(gdf_visual[n].geometry.cx, gdf_visual[n].geometry.cy, x, y)
              THEN PolygonCount(gdf_visual[n])
                     * output_visual.buildings[BuildingsBefore(n) + 1].data.pop
              ELSE 0)

RECURSIVE FeatureJobsWithin(_, _, _)
FeatureJobsWithin(n, x, y) ==
    IF n = 0 THEN 0
    ELSE FeatureJobsWithin(n - 1, x, y)
           + (IF /\ ExpectedLayer(gdf_visual[n]) = "buildings"
                 /\ PolygonCount(gdf_visual[n]) > 0
                 /\ Within100m(gdf_visual[n].geometry.cx, gdf_visual[n].geometry.cy, x, y)
              THEN PolygonCount(gdf_visual[n])
                     * output_visual.buildings[BuildingsBefore(n) + 1].data.jobs
              ELSE 0)

C9_FeatureRecords(j) ==
    LET f == gdf_visual[j]
        first == BuildingsBefore(j) + 1
        head == output_visual.buildings[first]
    IN  /\ head.height \in get_height(f.tags)
        /\ [category |-> head.data.type, density |-> head.data.density,
            pop |-> head.data.pop, jobs |-> head.data.jobs]
              \in classify_building(f.tags, head.height, f.geometry.area)
        /\ \A p \in 1..f.geometry.nparts :
              /\ output_visual.buildings[first + p - 1]
                   = [shape |-> [part |-> p], height |-> head.height, data |-> head.data]
              /\ building_data_points[first + p - 1]
                   = [x |-> f.geometry.cx, y |-> f.geometry.cy,
                      pop |-> head.data.pop, jobs |-> head.data.jobs]

C9_MultiPolygonBuildings ==
    pc # "aborted" =>
        /\ Len(output_visual.buildings) = Len(LayerParts("buildings", Processed))
        /\ Len(building_data_points) = Len(output_visual.buildings)
        /\ \A j \in 1..Processed :
              /\ ExpectedLayer(gdf_visual[j]) = "buildings"
              /\ gdf_visual[j].geometry.kind = "MultiPolygon"
              => C9_FeatureRecords(j)
        /\ \A id \in DOMAIN output_routing.nodes :
              LET node == output_routing.nodes[id]
              IN  /\ node.pop = FeaturePopWithin(Len(gdf_visual), node.x, node.y)
                  /\ node.jobs = FeatureJobsWithin(Len(gdf_visual), node.x, node.y)

\* the only building feature is a MultiPolygon of two or more parts, and a
\* node holds that many times the feature's pop
C9_Witness ==
    /\ pc = "done"
    /\ Len(gdf_visual) = 1
    /\ gdf_visual[1].geometry.kind = "MultiPolygon"
    /\ gdf_visual[1].geometry.nparts >= 2
    /\ Len(output_visual.buildings) = gdf_visual[1].geometry.nparts
    /\ output_visual.buildings[1].data.pop > 0
    /\ \E id \in DOMAIN output_routing.nodes :
          output_routing.nodes[id].pop
            = gdf_visual[1].geometry.nparts * output_visual.buildings[1].data.pop

(***************************************************************************)
(* C10.  Every polygon of every feature is appended to exactly one of      *)
(* buildings, water, parks: buildings for a non-nan building tag, else     *)
(* water for a non-nan natural or water tag, else parks.  The three        *)
(* collections together hold as many records as there are polygons; a      *)
(* feature with only amenity/office/shop tags lands in parks; an empty or  *)
(* non-polygon geometry gives no record.                                   *)
(***************************************************************************)
C10_LayerDispatch ==
    pc # "aborted" =>
        \A layer \in {"buildings", "water", "parks"} :
            [k \in 1..Len(output_visual[layer]) |-> output_visual[layer][k].shape.part]
              = LayerParts(layer, Processed)

\* a building mapped on the water went to buildings and a cafe to parks
C10_Witness ==
    /\ pc = "done"
    /\ Len(gdf_visual) = 2
    /\ gdf_visual[1].tags = BoathouseTags
    /\ gdf_visual[2].tags = CafeTags
    /\ gdf_visual[2].geometry.kind = "Polygon"
    /\ Len(output_visual.buildings) = 1
    /\ Len(output_visual.water) = 0
    /\ Len(output_visual.parks) = 1

====
